---- MODULE Spec2Model ----
(***************************************************************************)
(* The PostgreSQL driver (lib/driver/pg.js) and the MySQL driver of        *)
(* db-migrate as a state machine: a caller invokes driver operations, the  *)
(* driver hands statements to connection.query, and the connection answers *)
(* each statement later by calling the function it was given.              *)
(*                                                                         *)
(* A statement is a sequence of tokens; a token is a piece of SQL text     *)
(* that the driver never looks inside, or one of the characters "?", "["   *)
(* and "]" that runSql rewrites.                                           *)
(***************************************************************************)
EXTENDS Integers, Sequences, FiniteSets, TLC

VARIABLES
  driver,    \* the dialect of the driver connect() has built: "pg", "mysql"
  dryRun,    \* global.dryRun
  version,   \* pg: the three-part number in the server's version(), <<>> if none
  tables,    \* pg: number of tables named 'migrations' in schema public
  inv,       \* the caller's invocations, in order
  conn,      \* statements passed to connection.query and not yet answered
  sent,      \* every statement ever passed to connection.query, in order
  errs,      \* ids of the statements the connection answered with an error
  params,    \* pg.js: the implicit global `params`
  ticks,     \* callbacks queued with process.nextTick
  arg,       \* input of the pure function under study
  out        \* its result, once applied

vars == <<driver, dryRun, version, tables, inv, conn, sent, errs, params, ticks, arg, out>>

\* Number of operations the caller invokes.
MaxOps == 2
\* Length of the statement templates handed to runSql.
MaxLen == 3
\* Small declared lengths tried next to the breakpoints.
MaxSmallLen == 2

----------------------------------------------------------------------------
(* Values *)

NoErr == [kind |-> "none", stmt |-> 0]
\* The error the connection reports for statement id.
ConnErr(id) == [kind |-> "conn", stmt |-> id]
\* new Error(...) built by the driver itself.
ArgErr == [kind |-> "arg", stmt |-> 0]
IsErr(e) == e.kind # "none"

\* What a handler receives as its second argument: nothing, the client's
\* result envelope {rows: [...]}, or a bare array of rows.
Undefined == [shape |-> "undefined", rows |-> <<>>, from |-> 0]
Envelope(rows, id) == [shape |-> "envelope", rows |-> rows, from |-> id]
RowArray(rows, id) == [shape |-> "array", rows |-> rows, from |-> id]

\* A function value: which invocation's closure, which function, and the
\* options.ifNotExists its closure has captured.
Fn(o, f) == [owner |-> o, f |-> f, ine |-> FALSE]
NotAFunction == [owner |-> 0, f |-> "array", ine |-> FALSE]

DefArg == [unique |-> "undefined", nCols |-> 0, nVals |-> 0,
           hasTable |-> TRUE, sql |-> <<>>, argc |-> 2]

----------------------------------------------------------------------------
(* SQL text *)

IsBracket(c) == c = "[" \/ c = "]"

Digit == <<"0", "1", "2", "3", "4", "5", "6", "7", "8", "9">>

\* Number to string, as "$" + (i+1) converts it.
RECURSIVE Decimal(_)
Decimal(n) ==
  IF n < 10 THEN <<Digit[n + 1]>>
  ELSE Decimal(n \div 10) \o <<Digit[(n % 10) + 1]>>

\* String.prototype.split('?'): the pieces between the markers.
RECURSIVE SplitQ(_)
SplitQ(s) ==
  IF \A i \in 1..Len(s) : s[i] # "?" THEN <<s>>
  ELSE LET i == CHOOSE j \in 1..Len(s) :
                  s[j] = "?" /\ \A m \in 1..(j - 1) : s[m] # "?"
       IN <<SubSeq(s, 1, i - 1)>> \o SplitQ(SubSeq(s, i + 1, Len(s)))

\* Wrong: numbers the markers from 0.
DollarFromZero(i) == <<"$">> \o Decimal(i - 1)

\* The placeholder pushed after piece i (JavaScript's param[i-1]).
Dollar(i) == <<"$">> \o Decimal(i)

\* new_param joined: every piece but the last followed by its placeholder.
RECURSIVE JoinPieces(_, _)
JoinPieces(param, i) ==
  IF i = Len(param) THEN param[i]
  ELSE param[i] \o Dollar(i) \o JoinPieces(param, i + 1)

Placeholders(sql) == JoinPieces(SplitQ(sql), 1)

\* .replace(/\[|\]/g, "\"")
QuoteBrackets(sql) ==
  [i \in 1..Len(sql) |-> IF IsBracket(sql[i]) THEN "\"" ELSE sql[i]]

\* .replace(/\[|\]/g, "")
RECURSIVE StripBrackets(_)
StripBrackets(sql) ==
  IF sql = <<>> THEN <<>>
  ELSE (IF IsBracket(Head(sql)) THEN <<>> ELSE <<Head(sql)>>)
         \o StripBrackets(Tail(sql))

\* pg.js runSql: the statement text handed on, from the template and
\* arguments.length.
PgSqlText(sql, argc) ==
  QuoteBrackets(IF argc > 2 THEN Placeholders(sql) ELSE sql)

----------------------------------------------------------------------------
(* MySQL type mapping *)

DefaultLen == 1000
TinyMax == 256
BaseMax == 65536
MediumMax == 16777216

Absent == [k |-> "absent", v |-> 0]
NonNumeric == [k |-> "nonnumeric", v |-> 0]
IntLen(n) == [k |-> "int", v |-> n]

\* parseInt(spec.length, 10): NaN for undefined and for text without digits.
ParseInt(length) ==
  IF length.k = "int" THEN [nan |-> FALSE, v |-> length.v]
  ELSE [nan |-> TRUE, v |-> 0]

\* x || 1000: NaN and 0 are falsy.
OrDefault(x) == IF x.nan \/ x.v = 0 THEN DefaultLen ELSE x.v

SizeTier(len) ==
  IF len > MediumMax THEN "LONG"
  ELSE IF len > BaseMax THEN "MEDIUM"
  ELSE IF len > TinyMax THEN ""
  ELSE "TINY"

\* MysqlDriver.mapDataType, for the types the driver maps itself.
MapDataType(spec) ==
  CASE spec.type = "TEXT" -> <<SizeTier(OrDefault(ParseInt(spec.length))), "TEXT">>
    [] spec.type = "BLOB" -> <<SizeTier(OrDefault(ParseInt(spec.length))), "BLOB">>
    [] spec.type = "DATE_TIME" -> <<"", "DATETIME">>
    [] spec.type = "BOOLEAN" -> <<"", "TINYINT(1)">>

----------------------------------------------------------------------------
(* Statements *)

VersionSql == <<"select version() as version">>
ExistsSql == <<"SELECT table_name FROM information_schema.tables WHERE table_schema = 'public' AND table_name = 'migrations'">>
CreateTableSql(ifNotExists, tableName) ==
  <<"CREATE TABLE", IF ifNotExists THEN "IF NOT EXISTS" ELSE "", tableName>>
NotNullSql == <<"ALTER TABLE ALTER COLUMN SET/DROP NOT NULL">>
UniqueSql(unique) ==
  IF unique = "true" THEN <<"ALTER TABLE ADD CONSTRAINT UNIQUE">>
  ELSE <<"ALTER TABLE DROP CONSTRAINT">>
DefaultSql == <<"ALTER TABLE ALTER COLUMN SET/DROP DEFAULT">>
ColumnTypeSql == <<"SELECT COLUMN_TYPE FROM INFORMATION_SCHEMA.COLUMNS">>
AllSql == <<"SELECT * FROM ", "[", "migrations", "]">>

\* The operations that build one statement and pass it, with the caller's
\* callback, to runSql.
PgSimpleOps == {"createTable", "addIndex", "renameTable", "removeColumn",
                "addColumn", "renameColumn", "addForeignKey", "removeForeignKey"}
MysqlSimpleOps == {"renameTable", "removeColumn", "addForeignKey",
                   "removeForeignKey", "changeColumn"}

SimpleSql(op) ==
  CASE op = "createTable" -> CreateTableSql(FALSE, "\"t\"")
    [] op = "addIndex" -> <<"CREATE INDEX">>
    [] op = "renameTable" -> <<"RENAME TABLE">>
    [] op = "removeColumn" -> <<"ALTER TABLE DROP COLUMN">>
    [] op = "addColumn" -> <<"ALTER TABLE ADD COLUMN">>
    [] op = "renameColumn" -> <<"ALTER TABLE RENAME COLUMN">>
    [] op = "changeColumn" -> <<"ALTER TABLE CHANGE COLUMN">>
    [] op = "addForeignKey" -> <<"ALTER TABLE ADD CONSTRAINT FOREIGN KEY">>
    [] op = "removeForeignKey" -> <<"ALTER TABLE DROP CONSTRAINT/FOREIGN KEY">>

\* semver.gte(match[0], '9.1.0'); no match when the text holds no a.b.c.
SupportsIfNotExists(v) ==
  /\ Len(v) = 3
  /\ \/ v[1] > 9
     \/ v[1] = 9 /\ v[2] >= 1

----------------------------------------------------------------------------
(* The driver's code, as functions from the state at a call to the state   *)
(* at its return.  st.sync says whether the caller's operation call is     *)
(* still on the stack.                                                     *)

S == [tables |-> tables, inv |-> inv, conn |-> conn, sent |-> sent,
      errs |-> errs, params |-> params, ticks |-> ticks, sync |-> FALSE]

Commit(st) ==
  /\ tables' = st.tables
  /\ inv' = st.inv
  /\ conn' = st.conn
  /\ sent' = st.sent
  /\ errs' = st.errs
  /\ params' = st.params
  /\ ticks' = st.ticks

\* The caller's callback of invocation o is invoked.
Callback(st, o, err, res) ==
  [st EXCEPT !.inv[o].cbs =
     Append(@, [err |-> err, from |-> res.from, sync |-> st.sync])]

\* An exception leaves the running handler.
Throw(st, o) == [st EXCEPT !.inv[o].threw = TRUE]

\* connection.query(sql, ..., fn)
Query(st, o, sql, fn) ==
  LET id == Len(st.sent) + 1 IN
  [st EXCEPT !.sent = Append(@, [owner |-> o, sql |-> sql]),
             !.conn = @ \cup {[id |-> id, owner |-> o, sql |-> sql, fn |-> fn]}]

\* Wrong: creates the table whenever at most one exists.
TableAbsentOffByOne(res) == Len(res.rows) < 2

\* result.rows.length < 1
TableAbsent(res) == Len(res.rows) < 1

RECURSIVE Call(_, _, _, _)
RECURSIVE PgRunSql(_, _, _, _, _)
RECURSIVE MysqlRunSql(_, _, _, _, _)

\* pg.js runSql(sql, [values,] fn), called with argc arguments.
PgRunSql(st, o, sql, argc, fn) ==
  LET st1 == [st EXCEPT !.params =
                [argc |-> argc, p1 |-> IF argc > 2 THEN NotAFunction ELSE fn]]
  IN IF dryRun THEN Call(st1, fn, NoErr, Undefined)
     ELSE Query(st1, o, PgSqlText(sql, argc), fn)

\* pg.js all(sql, fn)
PgAll(st, o, sql, fn) ==
  LET st1 == [st EXCEPT !.params = [argc |-> 2, p1 |-> fn]]
  IN Query(st1, o, QuoteBrackets(sql), Fn(o, "pgAll"))

\* MySQL runSql(sql, [values,] fn)
MysqlRunSql(st, o, sql, argc, fn) ==
  IF dryRun THEN Call(st, fn, NoErr, Undefined)
  ELSE Query(st, o, StripBrackets(sql), fn)

\* MySQL all(sql, fn)
MysqlAll(st, o, sql, fn) == Query(st, o, StripBrackets(sql), fn)

\* The function value fn is called with (err, res).
Call(st, fn, err, res) ==
  LET o == fn.owner IN
  CASE fn.f = "callback" -> Callback(st, o, err, res)
    [] fn.f = "startMigration" -> Callback(st, o, NoErr, Undefined)
    [] fn.f = "endMigration" -> Callback(st, o, NoErr, Undefined)
    [] fn.f = "cmtVersion" ->
         IF IsErr(err) THEN Callback(st, o, err, Undefined)
         ELSE IF res.shape = "undefined" THEN Throw(st, o)
         ELSE LET ine == /\ res.shape = "envelope"
                         /\ Len(res.rows) > 0
                         /\ SupportsIfNotExists(res.rows[1].version)
              IN PgRunSql(st, o, ExistsSql, 2,
                          [Fn(o, "cmtExists") EXCEPT !.ine = ine])
    [] fn.f = "cmtExists" ->
         IF IsErr(err) THEN Callback(st, o, err, Undefined)
         ELSE IF res.shape = "undefined" THEN Throw(st, o)
         ELSE IF res.shape = "envelope" /\ TableAbsent(res)
              THEN PgRunSql(st, o, CreateTableSql(fn.ine, "\"migrations\""),
                            2, Fn(o, "callback"))
              ELSE Callback(st, o, NoErr, Undefined)
    [] fn.f = "setUnique" ->
         LET st1 == IF IsErr(err) THEN Callback(st, o, err, Undefined) ELSE st
             unique == st.inv[o].arg.unique
         IN IF unique \in {"true", "false"}
            THEN PgRunSql(st1, o, UniqueSql(unique), 2, Fn(o, "setDefaultValue"))
            ELSE Call(st1, Fn(o, "setDefaultValue"), NoErr, Undefined)
    [] fn.f = "setDefaultValue" ->
         IF IsErr(err) THEN Callback(st, o, err, Undefined)
         ELSE PgRunSql(st, o, DefaultSql, 2, Fn(o, "callback"))
    [] fn.f = "pgAll" ->
         IF res.shape = "undefined" THEN Throw(st, o)
         ELSE IF st.params.p1.f = "array" THEN Throw(st, o)
         ELSE Call(st, st.params.p1, err, RowArray(res.rows, res.from))
    [] fn.f = "renameColumn" ->
         IF res.shape = "undefined" \/ Len(res.rows) = 0 THEN Throw(st, o)
         ELSE MysqlRunSql(st, o, <<"ALTER TABLE CHANGE">>, 2, Fn(o, "callback"))

----------------------------------------------------------------------------
(* The caller *)

\* The index of the invocation being made.
Me == Len(inv) + 1

\* The state on entry to operation op with arguments a.
Enter(op, a) ==
  [S EXCEPT !.inv = Append(@, [op |-> op, arg |-> a,
                               cbs |-> <<>>, threw |-> FALSE]),
            !.sync = TRUE]

\* An uncaught exception ends the process.  A sequential caller starts an
\* operation only after the callback of the previous one has fired.
CallerReady(d, sequential) ==
  /\ driver = d
  /\ Len(inv) < MaxOps
  /\ \A i \in 1..Len(inv) : ~inv[i].threw
  /\ sequential /\ Len(inv) > 0 => Len(inv[Len(inv)].cbs) > 0

Fixed == UNCHANGED <<driver, dryRun, version, arg, out>>

PgTemplates == {[DefArg EXCEPT !.sql = <<"UPDATE t SET a = ", "?">>, !.argc = 3],
                [DefArg EXCEPT !.sql = <<"DELETE FROM ", "[", "t", "]">>]}

PgSimple(sequential, op) ==
  /\ CallerReady("pg", sequential)
  /\ Commit(PgRunSql(Enter(op, DefArg), Me, SimpleSql(op), 2,
                     Fn(Me, "callback")))
  /\ Fixed

PgStartMigration(sequential) ==
  /\ CallerReady("pg", sequential)
  /\ Commit(PgRunSql(Enter("startMigration", DefArg), Me, <<"BEGIN;">>, 2,
                     Fn(Me, "startMigration")))
  /\ Fixed

PgEndMigration(sequential) ==
  /\ CallerReady("pg", sequential)
  /\ Commit(PgRunSql(Enter("endMigration", DefArg), Me, <<"COMMIT;">>, 2,
                     Fn(Me, "endMigration")))
  /\ Fixed

PgCreateMigrationsTable(sequential) ==
  /\ CallerReady("pg", sequential)
  /\ Commit(PgRunSql(Enter("createMigrationsTable", DefArg), Me,
                     VersionSql, 2, Fn(Me, "cmtVersion")))
  /\ Fixed

PgChangeColumn(sequential, unique) ==
  /\ CallerReady("pg", sequential)
  /\ Commit(PgRunSql(Enter("changeColumn", [DefArg EXCEPT !.unique = unique]),
                     Me, NotNullSql, 2, Fn(Me, "setUnique")))
  /\ Fixed

PgInsert(sequential, nCols, nVals) ==
  /\ CallerReady("pg", sequential)
  /\ LET st == Enter("insert",
                     [DefArg EXCEPT !.nCols = nCols, !.nVals = nVals])
     IN Commit(IF nCols # nVals THEN Callback(st, Me, ArgErr, Undefined)
               ELSE PgRunSql(st, Me, <<"INSERT INTO">>, 2, Fn(Me, "callback")))
  /\ Fixed

PgRunSqlOp(sequential, a) ==
  /\ CallerReady("pg", sequential)
  /\ Commit(PgRunSql(Enter("runSql", a), Me, a.sql, a.argc,
                     Fn(Me, "callback")))
  /\ Fixed

PgAllOp(sequential) ==
  /\ CallerReady("pg", sequential)
  /\ Commit(PgAll(Enter("all", [DefArg EXCEPT !.sql = AllSql]), Me,
                  AllSql, Fn(Me, "callback")))
  /\ Fixed

MysqlSimple(sequential, op) ==
  /\ CallerReady("mysql", sequential)
  /\ Commit(MysqlRunSql(Enter(op, DefArg), Me, SimpleSql(op), 2,
                        Fn(Me, "callback")))
  /\ Fixed

\* removeIndex(tableName, indexName, callback) or removeIndex(indexName, callback)
MysqlRemoveIndex(sequential, hasTable) ==
  /\ CallerReady("mysql", sequential)
  /\ LET st == Enter("removeIndex", [DefArg EXCEPT !.hasTable = hasTable])
     IN Commit(IF ~hasTable THEN [st EXCEPT !.ticks = Append(@, Fn(Me, "callback"))]
               ELSE MysqlRunSql(st, Me, <<"DROP INDEX">>, 2, Fn(Me, "callback")))
  /\ Fixed

MysqlRenameColumn(sequential) ==
  /\ CallerReady("mysql", sequential)
  /\ Commit(MysqlAll(Enter("renameColumn", DefArg), Me, ColumnTypeSql,
                     Fn(Me, "renameColumn")))
  /\ Fixed

MysqlAddMigrationRecord(sequential) ==
  /\ CallerReady("mysql", sequential)
  /\ Commit(MysqlRunSql(Enter("addMigrationRecord", [DefArg EXCEPT !.argc = 3]),
                        Me, <<"INSERT INTO migrations (name, run_on) VALUES (", "?", ", ", "?", ")">>,
                        3, Fn(Me, "callback")))
  /\ Fixed

MysqlRunSqlOp(sequential) ==
  /\ CallerReady("mysql", sequential)
  /\ Commit(MysqlRunSql(Enter("runSql", [DefArg EXCEPT !.sql = AllSql]),
                        Me, AllSql, 2, Fn(Me, "callback")))
  /\ Fixed

MysqlAllOp(sequential) ==
  /\ CallerReady("mysql", sequential)
  /\ Commit(MysqlAll(Enter("all", [DefArg EXCEPT !.sql = AllSql]), Me,
                     AllSql, Fn(Me, "callback")))
  /\ Fixed

\* process.nextTick runs the function queued first.
NextTick ==
  /\ ticks # <<>>
  /\ Commit(Callback([S EXCEPT !.ticks = Tail(@)], Head(ticks).owner, ArgErr, Undefined))
  /\ Fixed

----------------------------------------------------------------------------
(* The connection *)

IsCreateMigrations(sql) ==
  Len(sql) = 3 /\ sql[1] = "CREATE TABLE" /\ sql[3] = "\"migrations\""

\* The rows the server returns for a statement it executes.
Rows(sql, found) ==
  CASE sql = VersionSql -> <<[version |-> version]>>
    [] sql = ExistsSql ->
         IF tables > 0 THEN <<[table_name |-> "migrations"]>> ELSE <<>>
    [] sql = ColumnTypeSql ->
         IF found THEN <<[COLUMN_TYPE |-> "int(11)"]>> ELSE <<>>
    [] OTHER -> <<>>

\* The connection answers statement s: with an error (fail, or the table to
\* create exists already) or with its result.  pg calls back with a result
\* envelope, mysql with the rows.
Answer(s, fail, found) ==
  /\ s \in conn
  /\ LET clash == /\ IsCreateMigrations(s.sql)
                  /\ tables > 0
                  /\ s.sql[2] # "IF NOT EXISTS"
         failed == fail \/ clash
         created == IsCreateMigrations(s.sql) /\ ~failed /\ tables = 0
         rows == Rows(s.sql, found)
         res == IF failed THEN Undefined
                ELSE IF driver = "pg" THEN Envelope(rows, s.id)
                ELSE RowArray(rows, s.id)
         st == [S EXCEPT !.conn = @ \ {s},
                         !.errs = IF failed THEN @ \cup {s.id} ELSE @,
                         !.tables = IF created THEN @ + 1 ELSE @]
     IN Commit(Call(st, s.fn, IF failed THEN ConnErr(s.id) ELSE NoErr, res))
  /\ Fixed

----------------------------------------------------------------------------
(* Specifications of the driver *)

Versions == {<<>>, <<9, 0, 4>>, <<9, 1, 0>>}
Uniques == {"true", "false", "undefined"}

Init ==
  /\ driver \in {"pg", "mysql"}
  /\ dryRun \in BOOLEAN
  /\ version \in (IF driver = "pg" THEN Versions ELSE {<<>>})
  /\ tables \in (IF driver = "pg" THEN {0, 1} ELSE {0})
  /\ inv = <<>>
  /\ conn = {}
  /\ sent = <<>>
  /\ errs = {}
  /\ params = [argc |-> 0, p1 |-> NotAFunction]
  /\ ticks = <<>>
  /\ arg = <<>>
  /\ out = <<>>

Operation(sequential) ==
  \/ \E op \in PgSimpleOps : PgSimple(sequential, op)
  \/ PgStartMigration(sequential)
  \/ PgEndMigration(sequential)
  \/ PgCreateMigrationsTable(sequential)
  \/ \E unique \in Uniques : PgChangeColumn(sequential, unique)
  \/ \E nVals \in 0..1 : PgInsert(sequential, 1, nVals)
  \/ \E a \in PgTemplates : PgRunSqlOp(sequential, a)
  \/ PgAllOp(sequential)
  \/ \E op \in MysqlSimpleOps : MysqlSimple(sequential, op)
  \/ \E hasTable \in BOOLEAN : MysqlRemoveIndex(sequential, hasTable)
  \/ MysqlRenameColumn(sequential)
  \/ MysqlAddMigrationRecord(sequential)
  \/ MysqlRunSqlOp(sequential)
  \/ MysqlAllOp(sequential)

Step ==
  \/ \E s \in conn, fail \in BOOLEAN :
       \E found \in (IF s.sql = ColumnTypeSql THEN BOOLEAN ELSE {TRUE}) :
         Answer(s, fail, found)
  \/ NextTick

\* The caller of the spec: one operation at a time.
Next == Operation(TRUE) \/ Step

Spec == Init /\ [][Next]_vars

\* A caller that does not wait for callbacks.
NextOverlap == Operation(FALSE) \/ Step

SpecOverlap == Init /\ [][NextOverlap]_vars

----------------------------------------------------------------------------
(* Specification of mapDataType: two declared lengths of one type *)

Breakpoints == {TinyMax - 1, TinyMax, TinyMax + 1, BaseMax, BaseMax + 1,
                MediumMax, MediumMax + 1}
Lengths == {IntLen(n) : n \in (0..MaxSmallLen) \cup Breakpoints}
             \cup {Absent, NonNumeric}
MappedTypes == {"TEXT", "BLOB", "DATE_TIME", "BOOLEAN"}

Idle(d) ==
  /\ driver = d
  /\ dryRun = FALSE
  /\ version = <<>>
  /\ tables = 0
  /\ inv = <<>>
  /\ conn = {}
  /\ sent = <<>>
  /\ errs = {}
  /\ params = [argc |-> 0, p1 |-> NotAFunction]
  /\ ticks = <<>>

InitMap ==
  /\ Idle("mysql")
  /\ arg \in [type : MappedTypes, l1 : Lengths, l2 : Lengths]
  /\ out = <<>>

ApplyMapDataType ==
  /\ out = <<>>
  /\ out' = <<MapDataType([type |-> arg.type, length |-> arg.l1]),
              MapDataType([type |-> arg.type, length |-> arg.l2])>>
  /\ UNCHANGED <<driver, dryRun, version, tables, inv, conn, sent, errs, params, ticks, arg>>

NextMap == ApplyMapDataType

SpecMap == InitMap /\ [][NextMap]_vars

----------------------------------------------------------------------------
(* Specification of runSql's rewriting of a template *)

Alphabet == {"?", "[", "]", "a", "$"}
Templates == UNION {[1..n -> Alphabet] : n \in 0..MaxLen}

InitRewrite ==
  /\ Idle("pg")
  /\ arg \in [sql : Templates, argc : {2, 3}]
  /\ out = <<>>

\* runSql(arg.sql, cb) or runSql(arg.sql, values, cb): out is the text
\* handed to connection.query, in a one-element tuple.
ApplyRunSql ==
  /\ out = <<>>
  /\ out' = <<PgSqlText(arg.sql, arg.argc)>>
  /\ UNCHANGED <<driver, dryRun, version, tables, inv, conn, sent, errs, params, ticks, arg>>

NextRewrite == ApplyRunSql

SpecRewrite == InitRewrite /\ [][NextRewrite]_vars

----------------------------------------------------------------------------
(* Properties *)

Invocations == 1..Len(inv)
IsOp(o, d, op) == driver = d /\ inv[o].op = op
\* The statements invocation o has passed to connection.query, in order.
SentBy(o) == {id \in 1..Len(sent) : sent[id].owner = o}
Answered(id) == \A s \in conn : s.id # id
\* The arguments of invocation o satisfy the operation's contract.
ValidArgs(o) ==
  /\ IsOp(o, "mysql", "removeIndex") => inv[o].arg.hasTable
  /\ IsOp(o, "pg", "insert") => inv[o].arg.nCols = inv[o].arg.nVals

\* C1: in pg changeColumn a statement that fails is the last statement the
\* invocation dispatches, and the callback's first error is that
\* statement's error.
C1_ChangeColumnHaltsOnError ==
  \A o \in Invocations : IsOp(o, "pg", "changeColumn") =>
    \A id \in SentBy(o) \cap errs :
      /\ \A later \in SentBy(o) : later <= id
      /\ inv[o].cbs # <<>> => inv[o].cbs[1].err = ConnErr(id)

\* C2: under dry run no statement reaches connection.query, no operation
\* throws, and every operation called with valid arguments has had its
\* callback invoked, without an error, by the time the call returns.
C2_DryRunSendsNothing ==
  dryRun =>
    /\ sent = <<>>
    /\ \A o \in Invocations : ValidArgs(o) =>
         /\ ~inv[o].threw
         /\ Len(inv[o].cbs) >= 1
         /\ \A i \in 1..Len(inv[o].cbs) : inv[o].cbs[i].err = NoErr

\* C3: an error the connection reports for a statement is handed, unchanged,
\* to the callback of the operation that dispatched the statement; the
\* operation neither throws nor reports success.
C3_ConnectionErrorPassedThrough ==
  \A id \in errs :
    LET o == sent[id].owner IN
    /\ ~inv[o].threw
    /\ \E i \in 1..Len(inv[o].cbs) : inv[o].cbs[i].err = ConnErr(id)
    /\ \A i \in 1..Len(inv[o].cbs) : inv[o].cbs[i].err # NoErr

\* C4: with a caller that waits for each callback, at most one statement is
\* in flight, and no operation whose callback has fired has a statement in
\* flight.
C4_OneStatementInFlight ==
  /\ Cardinality(conn) <= 1
  /\ \A s \in conn : inv[s.owner].cbs = <<>>

\* C5: once a createMigrationsTable has reported success, the schema holds
\* exactly one migrations table, and a later createMigrationsTable
\* dispatches no CREATE TABLE, does not throw, calls back at most once and,
\* unless the connection fails one of its own queries, without an error.
C5_CreateMigrationsTableIdempotent ==
  \A i, j \in Invocations :
    ( /\ i < j
      /\ IsOp(i, "pg", "createMigrationsTable")
      /\ IsOp(j, "pg", "createMigrationsTable")
      /\ inv[i].cbs # <<>>
      /\ inv[i].cbs[1].err = NoErr )
    => /\ tables = 1
       /\ \A id \in SentBy(j) : sent[id].sql[1] # "CREATE TABLE"
       /\ ~inv[j].threw
       /\ Len(inv[j].cbs) <= 1
       /\ SentBy(j) \cap errs = {} =>
            \A n \in 1..Len(inv[j].cbs) : inv[j].cbs[n].err = NoErr

\* A second createMigrationsTable has completed after a first one that
\* created the table.
C5_SecondCallCompleted ==
  /\ Len(inv) = 2
  /\ Cardinality(SentBy(1)) = 3
  /\ IsOp(1, "pg", "createMigrationsTable")
  /\ IsOp(2, "pg", "createMigrationsTable")
  /\ inv[1].cbs # <<>> /\ inv[1].cbs[1].err = NoErr
  /\ inv[2].cbs # <<>> /\ inv[2].cbs[1].err = NoErr
  /\ Cardinality(SentBy(2)) = 2
  /\ tables = 1

\* C6: an operation called against its argument contract dispatches
\* nothing, does not throw, and its callback receives the Error only after
\* the operation call has returned.
C6_ArgumentErrorsAsynchronous ==
  \A o \in Invocations : ~ValidArgs(o) =>
    /\ SentBy(o) = {}
    /\ ~inv[o].threw
    /\ \A i \in 1..Len(inv[o].cbs) :
         inv[o].cbs[i].err = ArgErr /\ ~inv[o].cbs[i].sync

\* C9: the caller's callback is invoked at most once per invocation.
C9_CallbackAtMostOnce ==
  \A o \in Invocations : Len(inv[o].cbs) <= 1

\* C10: the rows the connection returns for the query of a pg all(sql, cb)
\* are delivered to the callback of that invocation, whatever other calls
\* were made meanwhile.
C10_RowsReachOwnCallback ==
  \A o \in Invocations : IsOp(o, "pg", "all") =>
    \A id \in SentBy(o) : Answered(id) /\ id \notin errs =>
      /\ ~inv[o].threw
      /\ \E i \in 1..Len(inv[o].cbs) : inv[o].cbs[i].from = id

----------------------------------------------------------------------------
(* Properties of the pure functions *)

Rank(tier) ==
  CASE tier = "TINY" -> 0
    [] tier = "" -> 1
    [] tier = "MEDIUM" -> 2
    [] tier = "LONG" -> 3

\* C7: for TEXT and BLOB a longer declared length never selects a smaller
\* storage class; 256 selects the tiny class and 257 the next; an absent or
\* non-numeric length selects what 1000 selects.
C7_SizeTierMonotonic ==
  (out # <<>> /\ arg.type \in {"TEXT", "BLOB"}) =>
    /\ (arg.l1.k = "int" /\ arg.l2.k = "int" /\ arg.l1.v <= arg.l2.v)
         => Rank(out[1][1]) <= Rank(out[2][1])
    /\ arg.l1 = IntLen(256) => out[1][1] = "TINY"
    /\ arg.l1 = IntLen(257) => out[1][1] = ""
    /\ arg.l1 \in {Absent, NonNumeric} =>
         out[1] = MapDataType([type |-> arg.type, length |-> IntLen(1000)])

\* The template with its k-th "?" from the left replaced by "$k", counting
\* from k, and everything else as it is.
RECURSIVE Renumbered(_, _)
Renumbered(sql, k) ==
  IF sql = <<>> THEN <<>>
  ELSE IF Head(sql) = "?"
       THEN <<"$">> \o Decimal(k) \o Renumbered(Tail(sql), k + 1)
       ELSE <<Head(sql)>> \o Renumbered(Tail(sql), k)

\* C8 as stated: with values the text sent is the template with the k-th "?"
\* turned into "$k" and all other text in place; without values no "?" is
\* rewritten.
C8_PlaceholdersOnly ==
  out # <<>> =>
    IF arg.argc > 2 THEN out[1] = Renumbered(arg.sql, 1)
    ELSE /\ Len(out[1]) = Len(arg.sql)
         /\ \A i \in 1..Len(arg.sql) : (arg.sql[i] = "?") <=> (out[1][i] = "?")

\* C8 amended: as stated, except that every "[" and "]" of the other text
\* is sent as a double quote.
C8_PlaceholdersAndQuotes ==
  out # <<>> =>
    LET want == IF arg.argc > 2 THEN Renumbered(arg.sql, 1) ELSE arg.sql IN
    /\ Len(out[1]) = Len(want)
    /\ \A i \in 1..Len(want) :
         out[1][i] = IF want[i] \in {"[", "]"} THEN "\"" ELSE want[i]

\* A template with two markers and a bracket has been rewritten.
C8_TwoMarkersRewritten ==
  /\ out # <<>>
  /\ arg.argc = 3
  /\ arg.sql = <<"?", "[", "?">>
  /\ out[1] = <<"$", "1", "\"", "$", "2">>

====
